---- MODULE Spec2Model ----
(***************************************************************************)
(* AI Code Reviewer (src/main.py): a Streamlit script that is re-executed  *)
(* top to bottom on every user interaction.  One re-execution ("rerun")    *)
(* creates the GenAI client, reads the form, and - when the "Run review"   *)
(* button was pressed on non-blank code - builds a prompt, issues one      *)
(* generate_content call, parses the reply with json.loads and displays    *)
(* it.                                                                     *)
(*                                                                         *)
(* Python strings that the script itself manipulates (code, action,        *)
(* prompt) are TLA+ strings.  The reply of the remote call is a sequence   *)
(* of JSON lexemes (punctuation, string literal, number, literal name,     *)
(* bare word, whitespace), the level at which json.loads accepts or        *)
(* rejects a text.  Three tildes stand for the Markdown fence of three     *)
(* grave accents, a character the TLA+ lexer does not take in a string.    *)
(***************************************************************************)
EXTENDS Integers, Sequences, FiniteSets, TLC

(***************************************************************************)
(* Bounds of the model.                                                    *)
(***************************************************************************)
MaxCodeLen == 2
MaxTextLen == 2
MaxIssues == 2

(***************************************************************************)
(* Python str helpers.                                                     *)
(***************************************************************************)
IsSpace(c) == c \in {" ", "\n", "\t", "\r"}

RECURSIVE LStrip(_)
LStrip(s) ==
  IF Len(s) > 0 /\ IsSpace(SubSeq(s, 1, 1))
  THEN LStrip(SubSeq(s, 2, Len(s)))
  ELSE s

RECURSIVE RStrip(_)
RStrip(s) ==
  IF Len(s) > 0 /\ IsSpace(SubSeq(s, Len(s), Len(s)))
  THEN RStrip(SubSeq(s, 1, Len(s) - 1))
  ELSE s

Strip(s) == RStrip(LStrip(s))

\* s[i:i+1] for i in range(len(s)): the characters a for loop over a str yields
Chars(s) == [i \in 1..Len(s) |-> SubSeq(s, i, i)]

(***************************************************************************)
(* JSON values as json.loads builds them: None, bool, number, str, list,   *)
(* dict.  A dict is the sequence of its <<key, value>> pairs in insertion  *)
(* order, keys unique.                                                     *)
(***************************************************************************)
JNull == [t |-> "null", v |-> "null"]
JBool(b) == [t |-> "bool", v |-> b]
JNum(n) == [t |-> "num", v |-> n]
JStr(s) == [t |-> "str", v |-> s]
JArr(items) == [t |-> "arr", v |-> items]
JObj(pairs) == [t |-> "obj", v |-> pairs]

HasKey(pairs, k) == \E i \in 1..Len(pairs) : pairs[i][1] = k

Lookup(pairs, k) == pairs[CHOOSE i \in 1..Len(pairs) : pairs[i][1] = k][2]

\* d[k] = v on a dict: an existing key keeps its position, a new one is appended
Put(pairs, k, val) ==
  IF HasKey(pairs, k)
  THEN [i \in 1..Len(pairs) |-> IF pairs[i][1] = k THEN <<k, val>> ELSE pairs[i]]
  ELSE Append(pairs, <<k, val>>)

\* dict.get(k, default)
Get(d, k, default) == IF HasKey(d.v, k) THEN Lookup(d.v, k) ELSE default

\* Python truth value of a decoded JSON value
Truthy(x) ==
  CASE x.t = "null" -> FALSE
    [] x.t = "bool" -> x.v = "true"
    [] x.t = "num" -> x.v # "0"
    [] x.t = "str" -> x.v # ""
    [] x.t = "arr" -> Len(x.v) > 0
    [] x.t = "obj" -> Len(x.v) > 0

(***************************************************************************)
(* JSON text: a sequence of lexemes.                                       *)
(***************************************************************************)
Lx(k, v) == [k |-> k, v |-> v]
LBrace == Lx("p", "{")
RBrace == Lx("p", "}")
LBracket == Lx("p", "[")
RBracket == Lx("p", "]")
Comma == Lx("p", ",")
Colon == Lx("p", ":")
Space == Lx("ws", " ")

RECURSIVE SkipWs(_, _)
SkipWs(text, i) ==
  IF i <= Len(text) /\ text[i].k = "ws" THEN SkipWs(text, i + 1) ELSE i

ParseFail == [ok |-> FALSE, val |-> JNull, next |-> 0]
ParseOk(val, next) == [ok |-> TRUE, val |-> val, next |-> next]

RECURSIVE ParseValue(_, _)
RECURSIVE ParseElems(_, _, _)
RECURSIVE ParseMembers(_, _, _)

\* the decoder's scan_once at position i (whitespace already skipped)
ParseValue(text, i) ==
  IF i > Len(text) THEN ParseFail
  ELSE LET x == text[i] IN
    CASE x.k = "str" -> ParseOk(JStr(x.v), i + 1)
      [] x.k = "num" -> ParseOk(JNum(x.v), i + 1)
      [] x.k = "lit" ->
           IF x.v = "null" THEN ParseOk(JNull, i + 1)
           ELSE ParseOk(JBool(x.v), i + 1)
      [] x = LBracket ->
           LET j == SkipWs(text, i + 1) IN
             IF j <= Len(text) /\ text[j] = RBracket
             THEN ParseOk(JArr(<<>>), j + 1)
             ELSE ParseElems(text, j, <<>>)
      [] x = LBrace ->
           LET j == SkipWs(text, i + 1) IN
             IF j <= Len(text) /\ text[j] = RBrace
             THEN ParseOk(JObj(<<>>), j + 1)
             ELSE ParseMembers(text, j, <<>>)
      [] OTHER -> ParseFail

\* JSONArray: value (, value)* ]
ParseElems(text, i, acc) ==
  LET r == ParseValue(text, i) IN
    IF ~r.ok THEN ParseFail
    ELSE LET j == SkipWs(text, r.next) IN
      IF j > Len(text) THEN ParseFail
      ELSE IF text[j] = Comma
           THEN ParseElems(text, SkipWs(text, j + 1), Append(acc, r.val))
      ELSE IF text[j] = RBracket
           THEN ParseOk(JArr(Append(acc, r.val)), j + 1)
      ELSE ParseFail

\* JSONObject: "key" : value (, "key" : value)* }
ParseMembers(text, i, acc) ==
  IF i > Len(text) \/ text[i].k # "str" THEN ParseFail
  ELSE LET c == SkipWs(text, i + 1) IN
    IF c > Len(text) \/ text[c] # Colon THEN ParseFail
    ELSE LET r == ParseValue(text, SkipWs(text, c + 1)) IN
      IF ~r.ok THEN ParseFail
      ELSE LET j == SkipWs(text, r.next)
               d == Put(acc, text[i].v, r.val) IN
        IF j > Len(text) THEN ParseFail
        ELSE IF text[j] = Comma THEN ParseMembers(text, SkipWs(text, j + 1), d)
        ELSE IF text[j] = RBrace THEN ParseOk(JObj(d), j + 1)
        ELSE ParseFail

\* json.loads(text): ok = FALSE stands for the raised JSONDecodeError
JsonLoads(text) ==
  LET r == ParseValue(text, SkipWs(text, 1)) IN
    IF r.ok /\ SkipWs(text, r.next) = Len(text) + 1
    THEN [ok |-> TRUE, val |-> r.val]
    ELSE [ok |-> FALSE, val |-> JNull]

(***************************************************************************)
(* Display elements: what the script hands to st.error, st.warning,        *)
(* st.subheader, st.write, st.markdown and st.code, in order.  Every       *)
(* displayed value is a tagged record: a decoded JSON value, the raw reply *)
(* text, the values interpolated into the heading line of an issue, or the *)
(* value interpolated after "- " in a suggestion bullet.                   *)
(***************************************************************************)
El(kind, val) == [kind |-> kind, val |-> val]
RawText(text) == [t |-> "raw", v |-> text]
IssueLine(parts) == [t |-> "issue_line", v |-> parts]
Bullet(item) == [t |-> "bullet", v |-> item]
Shown(outp, crashed) == [out |-> outp, crashed |-> crashed]

\* what a for loop over x iterates; ok = FALSE stands for TypeError (not iterable)
Iter(x) ==
  CASE x.t = "arr" -> [ok |-> TRUE, items |-> x.v]
    [] x.t = "str" -> [ok |-> TRUE, items |-> [i \in 1..Len(x.v) |-> JStr(Chars(x.v)[i])]]
    [] x.t = "obj" -> [ok |-> TRUE, items |-> [i \in 1..Len(x.v) |-> JStr(x.v[i][1])]]
    [] OTHER -> [ok |-> FALSE, items |-> <<>>]

\* body of the issues loop for entry iss numbered i; iss.get on a value that
\* is no dict raises AttributeError before anything of the entry is shown
IssueEntry(i, iss) ==
  IF iss.t # "obj" THEN Shown(<<>>, TRUE)
  ELSE Shown(
         << El("markdown", IssueLine(<< i,
                                   Get(iss, "title", JStr("(no title)")),
                                   Get(iss, "line_start", JNull),
                                   Get(iss, "line_end", JNull),
                                   Get(iss, "severity", JNull) >>)),
            El("write", Get(iss, "explanation", JStr(""))) >>
         \o (IF Truthy(Get(iss, "fix", JNull))
             THEN << El("code_python", Get(iss, "fix", JNull)) >>
             ELSE << >>),
         FALSE)

RECURSIVE IssuesLoop(_, _)
IssuesLoop(items, i) ==
  IF i > Len(items) THEN Shown(<<>>, FALSE)
  ELSE LET e == IssueEntry(i, items[i]) IN
    IF e.crashed THEN e
    ELSE LET rest == IssuesLoop(items, i + 1) IN
      Shown(e.out \o rest.out, rest.crashed)

IssuesSection(issues) ==
  IF ~Truthy(issues)
  THEN Shown(<< El("write", JStr("No issues found (or model returned none).")) >>, FALSE)
  ELSE LET it == Iter(issues) IN
    IF ~it.ok THEN Shown(<<>>, TRUE) ELSE IssuesLoop(it.items, 1)

SuggestionsSection(suggestions) ==
  LET it == Iter(suggestions) IN
    IF ~it.ok THEN Shown(<<>>, TRUE)
    ELSE Shown([i \in 1..Len(it.items) |-> El("write", Bullet(it.items[i]))], FALSE)

FixedSection(fixed) ==
  IF Truthy(fixed)
  THEN << El("code_python", fixed) >>
  ELSE << El("write", JStr("No patched file returned by the model.")) >>

\* "Display parsed output": crashed = TRUE stands for an uncaught exception,
\* which ends the rerun with the elements shown so far
Render(parsed) ==
  LET head == << El("subheader", JStr("Summary")) >> IN
    IF parsed.t # "obj" THEN Shown(head, TRUE)
    ELSE
      LET s1 == head \o << El("write", Get(parsed, "summary", JStr(""))),
                           El("subheader", JStr("Issues")) >>
          iss == IssuesSection(Get(parsed, "issues", JArr(<<>>)))
      IN IF iss.crashed THEN Shown(s1 \o iss.out, TRUE)
         ELSE
           LET s2 == s1 \o iss.out
                        \o << El("subheader", JStr("High-level suggestions")) >>
               sg == SuggestionsSection(Get(parsed, "suggestions", JArr(<<>>)))
           IN IF sg.crashed THEN Shown(s2 \o sg.out, TRUE)
              ELSE Shown(s2 \o sg.out
                            \o << El("subheader", JStr("Patched file (fixed_code)")) >>
                            \o FixedSection(Get(parsed, "fixed_code", JStr(""))),
                         FALSE)

\* UnparsedOut with the reply left-stripped before it is shown
UnparsedOutStripped(text) ==
  << El("error", JStr("Model did not return valid JSON. Raw output shown below.")),
     El("code", RawText(SubSeq(text, SkipWs(text, 1), Len(text)))) >>

\* the except branch of the parse: st.error, then st.code(text)
UnparsedOut(text) ==
  << El("error", JStr("Model did not return valid JSON. Raw output shown below.")),
     El("code", RawText(text)) >>

(***************************************************************************)
(* The form and the request.                                               *)
(***************************************************************************)
DEFAULT_CODE ==
  "def factorial(n):\n    \"\"\"Return factorial of n (int).\"\"\"\n    if n <= 1:\n        return 1\n    return n * factorial(n-1)\n"

ActionLabels == {"Explain code", "Suggest improvements", "Return patched file (apply fixes)"}

SYSTEM_INSTRUCTION ==
  "You are an expert senior Python developer and code reviewer. "
  \o "When given Python source code, return a **single valid JSON object** with keys:\n"
  \o "  - summary: short (1-3 lines) description of what the code does\n"
  \o "  - issues: a list of objects {line_start, line_end, severity, title, explanation, fix}\n"
  \o "  - suggestions: short bullet-list of higher-level suggestions\n"
  \o "  - fixed_code: the full file content after applying the fixes (if possible)\n\n"
  \o "Requirements: respond **ONLY** with valid JSON (no extra commentary). "
  \o "Include line numbers where possible and short code snippets under 'fix'."

FenceOpen == "~~~python\n"
FenceClose == "\n~~~"

\* UserPrompt with the code stripped before it is interpolated
UserPromptStripped(a, c) ==
  "Action: " \o a \o "\n\nCode:\n" \o FenceOpen \o Strip(c) \o FenceClose

\* user_prompt
UserPrompt(a, c) == "Action: " \o a \o "\n\nCode:\n" \o FenceOpen \o c \o FenceClose

\* IsBlank without the strip: not code
IsBlankNoStrip(c) == c = ""

\* not code.strip()
IsBlank(c) == Strip(c) = ""

(***************************************************************************)
(* Inputs: the codes a user may paste, the replies the remote call may     *)
(* return.                                                                 *)
(***************************************************************************)
CodeChars == {" ", "x"}

RECURSIVE Strings(_)
Strings(n) ==
  IF n = 0 THEN {""}
  ELSE Strings(n - 1) \cup {s \o c : s \in Strings(n - 1), c \in CodeChars}

Codes == Strings(MaxCodeLen) \cup {DEFAULT_CODE}

RawLexemes ==
  {LBrace, RBrace, LBracket, RBracket, Lx("num", "5"), Lx("junk", "Sorry"), Space}

RECURSIVE Lexemes(_)
Lexemes(n) ==
  IF n = 0 THEN {<<>>}
  ELSE Lexemes(n - 1) \cup {Append(s, l) : s \in Lexemes(n - 1), l \in RawLexemes}

RECURSIVE Dumps(_)
RECURSIVE DumpsItems(_, _)
RECURSIVE DumpsPairs(_, _)

\* JSON text of a value, as a well-behaved model would write it
Dumps(x) ==
  CASE x.t = "null" -> <<Lx("lit", "null")>>
    [] x.t = "bool" -> <<Lx("lit", x.v)>>
    [] x.t = "num" -> <<Lx("num", x.v)>>
    [] x.t = "str" -> <<Lx("str", x.v)>>
    [] x.t = "arr" -> <<LBracket>> \o DumpsItems(x.v, 1) \o <<RBracket>>
    [] x.t = "obj" -> <<LBrace>> \o DumpsPairs(x.v, 1) \o <<RBrace>>

DumpsItems(items, i) ==
  IF i > Len(items) THEN <<>>
  ELSE Dumps(items[i])
       \o (IF i < Len(items) THEN <<Comma, Space>> ELSE <<>>)
       \o DumpsItems(items, i + 1)

DumpsPairs(pairs, i) ==
  IF i > Len(pairs) THEN <<>>
  ELSE <<Lx("str", pairs[i][1]), Colon, Space>> \o Dumps(pairs[i][2])
       \o (IF i < Len(pairs) THEN <<Comma, Space>> ELSE <<>>)
       \o DumpsPairs(pairs, i + 1)

FullIssue ==
  JObj(<< <<"line_start", JNum("3")>>, <<"line_end", JNum("4")>>,
          <<"severity", JStr("low")>>, <<"title", JStr("recursion")>>,
          <<"explanation", JStr("deep recursion")>>, <<"fix", JStr("loop")>> >>)

IssueEntries ==
  { JObj(<<>>),
    JObj(<< <<"title", JStr("bug")>>, <<"severity", JStr("high")>>, <<"fix", JStr("")>> >>),
    FullIssue,
    JStr("bug") }

RECURSIVE IssueLists(_)
IssueLists(n) ==
  IF n = 0 THEN {<<>>}
  ELSE IssueLists(n - 1) \cup {Append(s, e) : s \in IssueLists(n - 1), e \in IssueEntries}

Absent == [t |-> "absent", v |-> "absent"]

IssuesVals ==
  {Absent, JNum("5"), JNum("0"), JStr("bad"), JNull}
  \cup {JArr(s) : s \in IssueLists(MaxIssues)}
SuggestionsVals == {Absent, JArr(<<JStr("add docstring")>>), JNum("5")}

\* summary and fixed_code: both missing, or both given
SummaryAndFixed ==
  { <<Absent, Absent>>,
    <<JStr("adds two numbers"), JStr("def add(a,b): return a+b")>> }

Member(k, val) == IF val = Absent THEN <<>> ELSE << <<k, val>> >>

ReviewObjects ==
  { JObj(Member("summary", sf[1]) \o Member("issues", is)
         \o Member("suggestions", sg) \o Member("fixed_code", sf[2])) :
      sf \in SummaryAndFixed, is \in IssuesVals, sg \in SuggestionsVals }

NonObjects ==
  { JNull, JBool("true"), JNum("5"), JStr("Sorry, I cannot help."),
    JArr(<<>>), JArr(<<JObj(<<>>)>>) }

Texts ==
  Lexemes(MaxTextLen)
  \cup {Dumps(x) : x \in ReviewObjects \cup NonObjects}
  \cup {<<Space>> \o Dumps(x) \o <<Space>> : x \in NonObjects}
  \cup {SubSeq(Dumps(x), 1, Len(Dumps(x)) - 1) : x \in NonObjects}
  \cup {Dumps(x) \o <<Lx("junk", "Sorry")>> : x \in NonObjects}

(***************************************************************************)
(* State.                                                                  *)
(***************************************************************************)
VARIABLES
  client,      \* "ok" or "failed": what genai.Client(...) did in the latest rerun
  code,        \* text area value
  action,      \* radio value
  run_button,  \* TRUE in the rerun the button press triggers
  pc,          \* "idle": the rerun has ended; "calling": generate_content in flight
  outcome,     \* how the latest rerun ended
  calls,       \* generate_content calls issued by the latest rerun
  contents,    \* the contents of the call, <<>> while none was issued
  text,        \* resp.text, once the call returned
  parsed,      \* json.loads(text), once it succeeded
  out,         \* elements displayed by the latest rerun, in order
  prevFailed   \* TRUE when the rerun before the latest one ended in an error

vars ==
  <<client, code, action, run_button, pc, outcome, calls, contents, text, parsed,
    out, prevFailed>>

ErrorOutcomes ==
  {"ConfigurationError", "EmptyInputError", "Failed", "Unparsed", "Crashed"}

None == [has |-> FALSE, v |-> JNull]
Some(val) == [has |-> TRUE, v |-> val]

Init ==
  /\ client = "ok"
  /\ code = DEFAULT_CODE
  /\ action = "Explain code"
  /\ run_button = FALSE
  /\ pc = "idle"
  /\ outcome = "NoRun"
  /\ calls = 0
  /\ contents = <<>>
  /\ text = None
  /\ parsed = None
  /\ out = <<>>
  /\ prevFailed = FALSE

Halted(outp, how) ==
  [out |-> outp, outcome |-> how, pc |-> "idle", calls |-> 0, contents |-> <<>>]

\* RunScript without the st.stop() after the client error
RunScriptNoStop(c, a, rb, clientOk) ==
  LET pre == IF clientOk THEN <<>>
             ELSE << El("error", JStr("Failed to initialize GenAI client")) >>
  IN IF ~rb THEN Halted(pre, "NoRun")
     ELSE IF IsBlank(c)
     THEN Halted(Append(pre, El("warning", JStr("Paste some Python code first."))),
                 "EmptyInputError")
     ELSE [out |-> pre, outcome |-> "Pending", pc |-> "calling", calls |-> 1,
           contents |-> <<SYSTEM_INSTRUCTION, "Action: " \o a>>]

\* The script from its first line to the point where it either stops or has
\* issued generate_content: client creation (st.error, st.stop on failure),
\* the run_button branch, the empty-code guard, the prompt.
RunScript(c, a, rb, clientOk) ==
  IF ~clientOk
  THEN Halted(<< El("error", JStr("Failed to initialize GenAI client")) >>,
              "ConfigurationError")
  ELSE IF ~rb THEN Halted(<<>>, "NoRun")
  ELSE IF IsBlank(c)
  THEN Halted(<< El("warning", JStr("Paste some Python code first.")) >>,
              "EmptyInputError")
  ELSE [out |-> <<>>, outcome |-> "Pending", pc |-> "calling", calls |-> 1,
        contents |-> <<SYSTEM_INSTRUCTION, UserPrompt(a, c)>>]

\* Rerun with a latched error: after a rerun that ended in a client or call
\* error the script shows that error again instead of running
RerunSticky(c, a, rb, clientOk) ==
  /\ pc = "idle"
  /\ client' = IF clientOk THEN "ok" ELSE "failed"
  /\ code' = c
  /\ action' = a
  /\ run_button' = rb
  /\ prevFailed' = (outcome \in ErrorOutcomes)
  /\ text' = None
  /\ parsed' = None
  /\ LET r == IF outcome \in {"ConfigurationError", "Failed"}
              THEN Halted(out, outcome)
              ELSE RunScript(c, a, rb, clientOk) IN
       /\ out' = r.out
       /\ outcome' = r.outcome
       /\ pc' = r.pc
       /\ calls' = r.calls
       /\ contents' = r.contents

\* A user interaction reruns the script; nothing of the rerun before it is kept
\* but the widget values the user sets.
Rerun(c, a, rb, clientOk) ==
  /\ pc = "idle"
  /\ client' = IF clientOk THEN "ok" ELSE "failed"
  /\ code' = c
  /\ action' = a
  /\ run_button' = rb
  /\ prevFailed' = (outcome \in ErrorOutcomes)
  /\ text' = None
  /\ parsed' = None
  /\ LET r == RunScript(c, a, rb, clientOk) IN
       /\ out' = r.out
       /\ outcome' = r.outcome
       /\ pc' = r.pc
       /\ calls' = r.calls
       /\ contents' = r.contents

\* CallFails with one automatic retry of the call
CallFailsRetry ==
  /\ pc = "calling"
  /\ IF calls < 2
     THEN /\ calls' = calls + 1
          /\ UNCHANGED <<out, outcome, pc>>
     ELSE /\ calls' = calls
          /\ out' = Append(out, El("error", JStr("API call failed")))
          /\ outcome' = "Failed"
          /\ pc' = "idle"
  /\ UNCHANGED <<client, code, action, run_button, contents, text, parsed, prevFailed>>

\* generate_content raises: st.error, st.stop
CallFails ==
  /\ pc = "calling"
  /\ out' = Append(out, El("error", JStr("API call failed")))
  /\ outcome' = "Failed"
  /\ pc' = "idle"
  /\ UNCHANGED <<client, code, action, run_button, calls, contents, text, parsed,
                 prevFailed>>

\* generate_content returns resp.text = t: parse, then display or fall back
CallReturns(t) ==
  /\ pc = "calling"
  /\ text' = Some(t)
  /\ LET r == JsonLoads(t) IN
       IF ~r.ok
       THEN /\ parsed' = None
            /\ out' = out \o UnparsedOut(t)
            /\ outcome' = "Unparsed"
       ELSE LET d == Render(r.val) IN
            /\ parsed' = Some(r.val)
            /\ out' = out \o d.out
            /\ outcome' = IF d.crashed THEN "Crashed" ELSE "Structured"
  /\ pc' = "idle"
  /\ UNCHANGED <<client, code, action, run_button, calls, contents, prevFailed>>

Next ==
  \/ \E c \in Codes, a \in ActionLabels, rb \in BOOLEAN, clientOk \in BOOLEAN :
       Rerun(c, a, rb, clientOk)
  \/ CallFails
  \/ \E t \in Texts : CallReturns(t)

Spec == Init /\ [][Next]_vars

(***************************************************************************)
(* Properties.                                                             *)
(***************************************************************************)
OnlyWhitespace(s) == \A i \in 1..Len(s) : IsSpace(SubSeq(s, i, i))

ReviewKeys == {"summary", "issues", "suggestions", "fixed_code"}
KeysOf(d) == {d.v[i][1] : i \in 1..Len(d.v)}

ClientError == << El("error", JStr("Failed to initialize GenAI client")) >>
EmptyWarning == << El("warning", JStr("Paste some Python code first.")) >>
CallError == << El("error", JStr("API call failed")) >>

(***************************************************************************)
(* Lemmas about the model itself.                                          *)
(***************************************************************************)
\* json.loads reads back every value the sample replies were written from
DumpsLoadsRoundTrip ==
  \A x \in ReviewObjects \cup NonObjects :
    LET r == JsonLoads(Dumps(x)) IN r.ok /\ r.val = x

\* a rerun issues at most one call, and holds a reply only after its one call
AtMostOneCall ==
  /\ calls \in {0, 1}
  /\ (pc = "calling" => calls = 1)
  /\ (text.has => calls = 1)
  /\ (parsed.has => text.has)

\* issue entries that are dicts are displayed in order, numbered from 1, with
\* '(no title)', None and '' for what is missing, and a fix block exactly when
\* fix is truthy
DictIssueEntriesShown ==
  LET issues == Get(parsed.v, "issues", JArr(<<>>)) IN
    (parsed.has /\ parsed.v.t = "obj" /\ issues.t = "arr"
       /\ \A i \in 1..Len(issues.v) : issues.v[i].t = "obj") =>
      LET at == [i \in 1..Len(issues.v) |->
                   {j \in 1..Len(out) :
                      out[j].kind = "markdown" /\ out[j].val.v[1] = i}]
      IN \A i \in 1..Len(issues.v) :
           /\ Cardinality(at[i]) = 1
           /\ \A j \in at[i] :
                LET iss == issues.v[i]
                    fix == Get(iss, "fix", JNull)
                IN /\ out[j].val.v = << i,
                                        Get(iss, "title", JStr("(no title)")),
                                        Get(iss, "line_start", JNull),
                                        Get(iss, "line_end", JNull),
                                        Get(iss, "severity", JNull) >>
                   /\ out[j + 1] = El("write", Get(iss, "explanation", JStr("")))
                   /\ (i > 1 => \A h \in at[i - 1] : h < j)
                   /\ IF Truthy(fix)
                      THEN out[j + 2] = El("code_python", fix)
                      ELSE out[j + 2].kind # "code_python"

(***************************************************************************)
(* Claims.                                                                 *)
(***************************************************************************)
\* C1: in a rerun whose client was created, with the run button pressed and a
\* code that is empty or only whitespace, the rerun ends with the
\* EmptyInputError warning as its only output, no generate_content call is
\* issued, no prompt is built and nothing is received or parsed.
C1_EmptyInputNoCall ==
  (client = "ok" /\ run_button /\ OnlyWhitespace(code)) =>
    /\ pc = "idle"
    /\ outcome = "EmptyInputError"
    /\ out = EmptyWarning
    /\ calls = 0
    /\ contents = <<>>
    /\ ~text.has
    /\ ~parsed.has

C1_Witness ==
  /\ client = "ok" /\ run_button /\ code = "  "
  /\ outcome = "EmptyInputError"

\* C2: when the reply is not valid JSON the rerun ends Unparsed, the display is
\* the error followed by the reply exactly as received, no section of a
\* structured result is displayed, nothing counts as parsed, and the call was
\* issued once.
C2_UnparsedKeepsRawText ==
  (text.has /\ ~JsonLoads(text.v).ok) =>
    /\ outcome = "Unparsed"
    /\ pc = "idle"
    /\ Len(out) = 2
    /\ out[1].kind = "error"
    /\ out[2] = El("code", RawText(text.v))
    /\ \A i \in 1..Len(out) :
         out[i].kind \notin {"subheader", "write", "markdown", "code_python"}
    /\ ~parsed.has
    /\ calls = 1

C2_Witness ==
  /\ outcome = "Unparsed"
  /\ text.has
  /\ text.v = <<Space, Lx("junk", "Sorry")>>

\* C3 (as claimed): whenever the reply decodes to an object whose keys are
\* among summary, issues, suggestions, fixed_code, the rerun ends Structured,
\* and a missing summary is displayed as the empty string.
C3_SubsetObjectStructured ==
  (parsed.has /\ parsed.v.t = "obj" /\ KeysOf(parsed.v) \subseteq ReviewKeys) =>
    /\ outcome = "Structured"
    /\ ("summary" \notin KeysOf(parsed.v) => out[2] = El("write", JStr("")))

\* C4 (as claimed): for every reply, the rerun ends Structured when json.loads
\* succeeds and Unparsed when it fails.
C4_InterpretTotal ==
  text.has =>
    IF JsonLoads(text.v).ok THEN outcome = "Structured" ELSE outcome = "Unparsed"

\* C5: when generate_content raises, the rerun ends Failed with the call error
\* as its only output; no reply is held, nothing is parsed, and the call was
\* issued exactly once.
C5_CallFailureHalts ==
  (outcome = "Failed") =>
    /\ pc = "idle"
    /\ out = CallError
    /\ ~text.has
    /\ ~parsed.has
    /\ calls = 1

C5_Witness ==
  /\ outcome = "Failed"
  /\ pc = "idle"
  /\ calls = 1

\* C6 (as claimed): a rerun that passes the empty-input guard issues exactly
\* one call and, once it has ended, ended in one of Structured, Unparsed,
\* Failed.
C6_OneCallOneTerminal ==
  (client = "ok" /\ run_button /\ ~OnlyWhitespace(code)) =>
    /\ calls = 1
    /\ (pc = "calling" \/ outcome \in {"Structured", "Unparsed", "Failed"})

\* C7: the user message of an issued call starts with the action line holding
\* the chosen label, and ends with the fenced block whose content is the
\* submitted code, character for character; the system instruction precedes it.
C7_PromptVerbatim ==
  (calls > 0) =>
    /\ Len(contents) = 2
    /\ contents[1] = SYSTEM_INSTRUCTION
    /\ LET msg == contents[2]
           head == "Action: " \o action \o "\n"
           from == Len(msg) - Len(FenceClose) - Len(code) + 1
       IN /\ SubSeq(msg, 1, Len(head)) = head
          /\ from - Len(FenceOpen) > Len(head)
          /\ SubSeq(msg, from - Len(FenceOpen), from - 1) = FenceOpen
          /\ SubSeq(msg, from, from + Len(code) - 1) = code
          /\ SubSeq(msg, from + Len(code), Len(msg)) = FenceClose

C7_Witness ==
  /\ pc = "calling"
  /\ code = " x"
  /\ action = "Return patched file (apply fixes)"

\* C8: everything a rerun leaves behind is determined by its own inputs (client
\* creation, button, code, action) and the reply, whatever the reruns before it
\* did: the state equals what the script computes from those alone.
C8_HistoryIndependent ==
  LET r == RunScript(code, action, run_button, client = "ok") IN
    /\ calls = r.calls
    /\ contents = r.contents
    /\ IF r.pc = "idle"
       THEN /\ pc = "idle" /\ outcome = r.outcome /\ out = r.out
            /\ ~text.has /\ ~parsed.has
       ELSE \/ /\ pc = "calling" /\ outcome = "Pending" /\ out = <<>>
               /\ ~text.has /\ ~parsed.has
            \/ /\ pc = "idle" /\ outcome = "Failed" /\ out = CallError
               /\ ~text.has /\ ~parsed.has
            \/ /\ pc = "idle" /\ text.has
               /\ LET p == JsonLoads(text.v) IN
                    IF ~p.ok
                    THEN /\ outcome = "Unparsed"
                         /\ out = UnparsedOut(text.v)
                         /\ ~parsed.has
                    ELSE /\ parsed.has /\ parsed.v = p.val
                         /\ out = Render(p.val).out
                         /\ outcome = IF Render(p.val).crashed
                                      THEN "Crashed" ELSE "Structured"

C8_Witness ==
  /\ prevFailed
  /\ pc = "idle"
  /\ outcome = "Structured"

\* C9: when client creation fails the rerun ends at once with the client error
\* as its only output: no call, no prompt, no reply, nothing parsed, whatever
\* the button and the code are.
C9_ClientFailureHalts ==
  (client = "failed") =>
    /\ pc = "idle"
    /\ outcome = "ConfigurationError"
    /\ out = ClientError
    /\ calls = 0
    /\ contents = <<>>
    /\ ~text.has
    /\ ~parsed.has

C9_Witness ==
  /\ client = "failed"
  /\ run_button
  /\ code = "x"
  /\ outcome = "ConfigurationError"

\* C10 (as claimed): when the decoded object holds a list under issues, every
\* entry of the list is displayed, numbered by its position from 1.
C10_IssueEntriesDisplayed ==
  (parsed.has /\ parsed.v.t = "obj"
     /\ Get(parsed.v, "issues", JArr(<<>>)).t = "arr") =>
    \A i \in 1..Len(Get(parsed.v, "issues", JArr(<<>>)).v) :
      \E j \in 1..Len(out) :
        /\ out[j].kind = "markdown"
        /\ out[j].val.v[1] = i
====
